---- MODULE Spec2Model ----
(***************************************************************************)
(* The training script main.py of awd-lstm as a state machine: the epoch   *)
(* loop (training pass, validation pass, best-model checkpoint and         *)
(* learning-rate annealing) inside try/except KeyboardInterrupt, followed  *)
(* by the test evaluation and the writing of the loss history.             *)
(*                                                                         *)
(* Numbers.  Python floats are modelled as extended rationals: a record    *)
(* [k, n, d] with k = "fin" (the rational n/d, d > 0, in lowest terms),    *)
(* k = "inf" (+infinity, np.inf) or k = "nan".  Cross-entropy is never     *)
(* negative, so -infinity does not occur.  Rounding is not modelled.       *)
(***************************************************************************)
EXTENDS Integers, Sequences, FiniteSets, TLC

\* ------------------------------------------------------------ bounds
MaxEpochs == 3      \* args.epochs of the runs explored
NTrain == 2         \* len(train_loader): windows of one training pass
NEval == 2          \* len(valid_loader) = len(test_loader)

\* ------------------------------------------------- program constants
args_lr == 30       \* --lr default
args_bptt == 80     \* --bptt default

\* -------------------------------------------------- extended rationals
RECURSIVE Gcd(_, _)
Gcd(a, b) == IF b = 0 THEN a ELSE Gcd(b, a % b)

Abs(x) == IF x < 0 THEN -x ELSE x

Fin(n, d) ==
    LET g == Gcd(Abs(n), d)
    IN  [k |-> "fin", n |-> n \div g, d |-> d \div g]

Num(n) == Fin(n, 1)
Inf == [k |-> "inf", n |-> 0, d |-> 1]
NaN == [k |-> "nan", n |-> 0, d |-> 1]

IsFinite(a) == a.k = "fin"

\* float addition of non-negative-or-finite operands (no -inf in the model)
ExtAdd(a, b) ==
    IF a.k = "nan" \/ b.k = "nan" THEN NaN
    ELSE IF a.k = "inf" \/ b.k = "inf" THEN Inf
    ELSE Fin(a.n * b.d + b.n * a.d, a.d * b.d)

\* float multiplication by a finite non-negative scalar c >= 0 (integer)
ExtScale(c, a) ==
    IF a.k = "nan" THEN NaN
    ELSE IF a.k = "inf" THEN (IF c = 0 THEN NaN ELSE Inf)
    ELSE Fin(c * a.n, a.d)

\* float division by a positive integer
ExtDivInt(a, m) ==
    IF a.k # "fin" THEN a ELSE Fin(a.n, a.d * m)

\* variant: a comparison under which NaN counts as lower than anything
ExtLessNanBelow(a, b) ==
    IF a.k = "nan" \/ b.k = "nan" THEN TRUE
    ELSE IF a.k = "inf" THEN FALSE
    ELSE IF b.k = "inf" THEN TRUE
    ELSE a.n * b.d < b.n * a.d

\* variant: the non-strict comparison a <= b
ExtLessOrEqual(a, b) ==
    IF a.k = "nan" \/ b.k = "nan" THEN FALSE
    ELSE IF b.k = "inf" THEN TRUE
    ELSE IF a.k = "inf" THEN FALSE
    ELSE a.n * b.d <= b.n * a.d

\* the float comparison a < b (line 160): False whenever an operand is NaN
ExtLess(a, b) ==
    IF a.k = "nan" \/ b.k = "nan" THEN FALSE
    ELSE IF a.k = "inf" THEN FALSE
    ELSE IF b.k = "inf" THEN TRUE
    ELSE a.n * b.d < b.n * a.d

\* ------------------------------------------------------- the inputs
\* window lengths x.shape[0] the variable-length loader hands out
SeqLens == {args_bptt \div 2, args_bptt + 3}
\* values nn.CrossEntropyLoss returns for one window of each split
CritVals(split) ==
    IF split = "valid" THEN {Num(1), Num(2), Inf, NaN} ELSE {Num(1)}
\* (--alpha, --beta) of the runs explored
AlphaBeta == {<<0, 0>>, <<2, 1>>}
\* --anneal_factor of the runs explored
AnnealFactors == {2, 4}
\* dropped_out[-1].pow(2).mean() and the squared-difference mean of raw_out[-1]
ArVals == {Num(1)}
TarVals == {Num(1)}

VARIABLES
    args,           \* the parsed command line
    pc,             \* the statement the script is about to run
    e,              \* epoch counter of the for loop
    i,              \* windows of the current pass already drawn from its loader
    mode,           \* model.training: "train" or "eval"
    hidden,         \* the encoder's carried state: the windows it has seen since its reset
    params,         \* model parameters, as the number of optimizer steps applied
    lr,             \* optimizer.param_groups[0]['lr']
    best_loss, best_epoch,
    ckpt,           \* the .pth file: <<>> while unwritten, else <<saved params>>
    train_loss, valid_loss, test_loss,
    train_losses, valid_losses,
    seq_len,        \* x.shape[0] of the current training window
    tensors,        \* the loss tensors of the current window, by reference
    raw_loss, loss, \* references into tensors (0: unbound)
    csv, txt,       \* the .csv and .txt files: <<>> while unwritten
    int_at,         \* history: <<>>, or <<[e, params]>> at the KeyboardInterrupt
    end_params,     \* history: params at the end of each completed epoch
    raw_acc         \* history: sum of the criterion's values in the current pass

vars == <<args, pc, e, i, mode, hidden, params, lr, best_loss, best_epoch, ckpt,
          train_loss, valid_loss, test_loss, train_losses, valid_losses,
          seq_len, tensors, raw_loss, loss, csv, txt, int_at, end_params, raw_acc>>

cfgv == <<args>>
modelv == <<mode, hidden, params>>
schedv == <<best_loss, best_epoch, ckpt>>
accv == <<train_loss, valid_loss, test_loss>>
histv == <<train_losses, valid_losses>>
tmpv == <<seq_len, tensors, raw_loss, loss>>
outv == <<csv, txt>>
ghostv == <<int_at, end_params>>

base_lr == Num(args_lr)

\* ----------------------------------------------- collaborators (layers, utils)
\* RNNModel.reset_hidden(): the carried state is zeroed
ResetHidden == <<>>

\* RNNModel.forward on window w: the state it leaves depends on the state it found
CarryHidden(h, w) == Append(h, w)

\* get_loaders: every loader yields the same number of windows on every pass
LoaderLen(split) == IF split = "train" THEN NTrain ELSE NEval

\* get_loaders(..., use_var_bptt): lengths of the training windows
WindowLens(use_var_bptt) == IF use_var_bptt THEN SeqLens ELSE {args_bptt}

\* ------------------------------------------------------------- Init
Init ==
    /\ args \in [use_var_bptt : BOOLEAN, anneal_factor : AnnealFactors,
                 ab : AlphaBeta, epochs : {MaxEpochs}]
    /\ pc = "for_epoch"
    /\ e = 0
    /\ i = 0
    /\ mode = "train"
    /\ hidden = ResetHidden
    /\ params = 0
    /\ lr = base_lr
    /\ best_loss = Inf
    /\ best_epoch = 0
    /\ ckpt = <<>>
    /\ train_loss = Num(0) /\ valid_loss = Num(0) /\ test_loss = Num(0)
    /\ train_losses = <<>> /\ valid_losses = <<>>
    /\ seq_len = 0
    /\ tensors = <<>> /\ raw_loss = 0 /\ loss = 0
    /\ csv = <<>> /\ txt = <<>>
    /\ int_at = <<>> /\ end_params = <<>>
    /\ raw_acc = Num(0)

\* ------------------------------------------------------ the epoch loop
\* line 106: for e in range(1, args.epochs + 1)
ForEpoch ==
    /\ pc = "for_epoch"
    /\ IF e < args.epochs
       THEN /\ e' = e + 1
            /\ pc' = "train_setup"
       ELSE /\ e' = e
            /\ pc' = "test_setup"
    /\ UNCHANGED <<cfgv, i, modelv, lr, schedv, accv, histv, tmpv, outv, ghostv, raw_acc>>

\* lines 107-109: model.train(); model.reset_hidden(); train_loss = 0
TrainSetup ==
    /\ pc = "train_setup"
    /\ mode' = "train"
    /\ hidden' = ResetHidden
    /\ train_loss' = Num(0)
    /\ raw_acc' = Num(0)
    /\ i' = 0
    /\ pc' = "for_train"
    /\ UNCHANGED <<cfgv, e, params, lr, schedv, valid_loss, test_loss, histv, tmpv,
                   outv, ghostv>>

\* lines 110-111: the next window of train_loader, or the end of the pass
ForTrain ==
    /\ pc = "for_train"
    /\ IF i < LoaderLen("train")
       THEN /\ i' = i + 1
            /\ \E L \in WindowLens(args.use_var_bptt) : seq_len' = L
            /\ pc' = "scale_lr"
       ELSE /\ i' = i
            /\ seq_len' = seq_len
            /\ pc' = "train_avg"
    /\ UNCHANGED <<cfgv, e, modelv, lr, schedv, accv, histv, tensors, raw_loss, loss,
                   outv, ghostv, raw_acc>>

\* the rate a window of length L is trained with (line 116)
\* variant: the ratio taken upside down
ScaledLRInverted(L) == Fin(args_lr * args_bptt, L)

ScaledLR(L) == Fin(args_lr * L, args_bptt)

\* lines 113-116: scale the learning rate to the sequence length
ScaleLR ==
    /\ pc = "scale_lr"
    /\ lr' = IF args.use_var_bptt THEN ScaledLR(seq_len) ELSE lr
    /\ pc' = "forward"
    /\ UNCHANGED <<cfgv, e, i, modelv, schedv, accv, histv, tmpv, outv, ghostv, raw_acc>>

\* lines 118-122: out, hidden, raw_out, dropped_out = model(x, return_states=True)
Forward ==
    /\ pc = "forward"
    /\ hidden' = CarryHidden(hidden, <<"train", e, i>>)
    /\ pc' = "compute_loss"
    /\ UNCHANGED <<cfgv, e, i, mode, params, lr, schedv, accv, histv, tmpv, outv,
                   ghostv, raw_acc>>

\* Tensor.__iadd__: `t += v` adds into the tensor t refers to
InplaceAdd(ts, ref, v) == [ts EXCEPT ![ref] = ExtAdd(@, v)]

\* lines 123-128: raw_loss = criterion(...); loss = raw_loss; loss += AR; loss += TAR
ComputeLoss ==
    /\ pc = "compute_loss"
    /\ \E c \in CritVals("train"), ar \in ArVals, tar \in TarVals :
          LET t0 == <<c>>                                        \* line 123
              rl == 1
              l  == rl                                           \* line 126
              t1 == InplaceAdd(t0, l, ExtScale(args.ab[1], ar))  \* line 127
              t2 == InplaceAdd(t1, l, ExtScale(args.ab[2], tar)) \* line 128
          IN  /\ tensors' = t2
              /\ raw_loss' = rl
              /\ loss' = l
              /\ raw_acc' = ExtAdd(raw_acc, c)
    /\ pc' = "opt_step"
    /\ UNCHANGED <<cfgv, e, i, modelv, lr, schedv, accv, histv, seq_len, outv, ghostv>>

\* lines 130-133: zero_grad, backward, clip_grad_norm_, optimizer.step()
OptStep ==
    /\ pc = "opt_step"
    /\ params' = params + 1
    /\ pc' = "restore_lr"
    /\ UNCHANGED <<cfgv, e, i, mode, hidden, lr, schedv, accv, histv, tmpv, outv,
                   ghostv, raw_acc>>

\* lines 135-137: restore original LR
RestoreLR ==
    /\ pc = "restore_lr"
    /\ lr' = IF args.use_var_bptt THEN base_lr ELSE lr
    /\ pc' = "accumulate"
    /\ UNCHANGED <<cfgv, e, i, modelv, schedv, accv, histv, tmpv, outv, ghostv, raw_acc>>

\* line 139: train_loss += raw_loss.item(); the window's temporaries are not read again
Accumulate ==
    /\ pc = "accumulate"
    /\ train_loss' = ExtAdd(train_loss, tensors[raw_loss])
    /\ seq_len' = 0 /\ tensors' = <<>> /\ raw_loss' = 0 /\ loss' = 0
    /\ pc' = "for_train"
    /\ UNCHANGED <<cfgv, e, i, modelv, lr, schedv, valid_loss, test_loss, histv, outv,
                   ghostv, raw_acc>>

\* lines 140-141: train_loss /= len(train_loader); train_losses.append(train_loss)
TrainAvg ==
    /\ pc = "train_avg"
    /\ train_loss' = ExtDivInt(train_loss, LoaderLen("train"))
    /\ train_losses' = Append(train_losses, train_loss')
    /\ pc' = "valid_setup"
    /\ UNCHANGED <<cfgv, e, i, modelv, lr, schedv, valid_loss, test_loss, valid_losses,
                   tmpv, outv, ghostv, raw_acc>>

\* variant: the validation pass set up without the reset of line 144
ValidSetupNoReset ==
    /\ pc = "valid_setup"
    /\ mode' = "eval"
    /\ hidden' = hidden
    /\ valid_loss' = Num(0)
    /\ raw_acc' = Num(0)
    /\ i' = 0
    /\ pc' = "for_valid"
    /\ UNCHANGED <<cfgv, e, params, lr, schedv, train_loss, test_loss, histv, tmpv,
                   outv, ghostv>>

\* lines 143-145: model.eval(); model.reset_hidden(); valid_loss = 0
ValidSetup ==
    /\ pc = "valid_setup"
    /\ mode' = "eval"
    /\ hidden' = ResetHidden
    /\ valid_loss' = Num(0)
    /\ raw_acc' = Num(0)
    /\ i' = 0
    /\ pc' = "for_valid"
    /\ UNCHANGED <<cfgv, e, params, lr, schedv, train_loss, test_loss, histv, tmpv,
                   outv, ghostv>>

\* lines 146-148: the next window of valid_loader, or the end of the pass
ForValid ==
    /\ pc = "for_valid"
    /\ IF i < LoaderLen("valid")
       THEN /\ i' = i + 1
            /\ pc' = "valid_forward"
       ELSE /\ i' = i
            /\ pc' = "valid_avg"
    /\ UNCHANGED <<cfgv, e, modelv, lr, schedv, accv, histv, tmpv, outv, ghostv, raw_acc>>

\* lines 149-152: out = model(x), under torch.no_grad()
ValidForward ==
    /\ pc = "valid_forward"
    /\ hidden' = CarryHidden(hidden, <<"valid", e, i>>)
    /\ pc' = "valid_loss"
    /\ UNCHANGED <<cfgv, e, i, mode, params, lr, schedv, accv, histv, tmpv, outv,
                   ghostv, raw_acc>>

\* variant: the evaluation loss with the AR/TAR penalty added
EvalLossPenalised(c, pen) == ExtAdd(c, pen)

\* lines 153 and 188: loss = criterion(out.view(-1, vocab_sz), y); pen is what the
\* window's activations would add under AR/TAR (they are not requested here)
EvalLoss(c, pen) == c

\* lines 153-155: loss = criterion(...); valid_loss += loss.item()
ValidLoss ==
    /\ pc = "valid_loss"
    /\ \E c \in CritVals("valid"), ar \in ArVals, tar \in TarVals :
          LET pen == ExtAdd(ExtScale(args.ab[1], ar), ExtScale(args.ab[2], tar))
          IN  /\ valid_loss' = ExtAdd(valid_loss, EvalLoss(c, pen))
              /\ raw_acc' = ExtAdd(raw_acc, c)
    /\ pc' = "for_valid"
    /\ UNCHANGED <<cfgv, e, i, modelv, lr, schedv, train_loss, test_loss, histv, tmpv,
                   outv, ghostv>>

\* lines 156-157: valid_loss /= len(valid_loader); valid_losses.append(valid_loss)
ValidAvg ==
    /\ pc = "valid_avg"
    /\ valid_loss' = ExtDivInt(valid_loss, LoaderLen("valid"))
    /\ valid_losses' = Append(valid_losses, valid_loss')
    /\ pc' = "compare"
    /\ UNCHANGED <<cfgv, e, i, modelv, lr, schedv, train_loss, test_loss, train_losses,
                   tmpv, outv, ghostv, raw_acc>>

\* line 160: if valid_loss < best_loss
Compare ==
    /\ pc = "compare"
    /\ pc' = IF ExtLess(valid_loss, best_loss) THEN "set_best_loss" ELSE "anneal"
    /\ UNCHANGED <<cfgv, e, i, modelv, lr, schedv, accv, histv, tmpv, outv, ghostv,
                   raw_acc>>

\* line 161: best_loss = valid_loss
SetBestLoss ==
    /\ pc = "set_best_loss"
    /\ best_loss' = valid_loss
    /\ pc' = "set_best_epoch"
    /\ UNCHANGED <<cfgv, e, i, modelv, lr, best_epoch, ckpt, accv, histv, tmpv, outv,
                   ghostv, raw_acc>>

\* line 162: best_epoch = e
SetBestEpoch ==
    /\ pc = "set_best_epoch"
    /\ best_epoch' = e
    /\ pc' = "save"
    /\ UNCHANGED <<cfgv, e, i, modelv, lr, best_loss, ckpt, accv, histv, tmpv, outv,
                   ghostv, raw_acc>>

\* lines 163-165: torch.save(model.state_dict(), f)
Save ==
    /\ pc = "save"
    /\ ckpt' = <<params>>
    /\ pc' = "epoch_end"
    /\ UNCHANGED <<cfgv, e, i, modelv, lr, best_loss, best_epoch, accv, histv, tmpv,
                   outv, ghostv, raw_acc>>

\* variant: annealing that ignores --use_var_bptt
AnnealAlways ==
    /\ pc = "anneal"
    /\ lr' = ExtDivInt(lr, args.anneal_factor)
    /\ pc' = "epoch_end"
    /\ UNCHANGED <<cfgv, e, i, modelv, schedv, accv, histv, tmpv, outv, ghostv, raw_acc>>

\* lines 166-168: else: if not args.use_var_bptt: lr /= args.anneal_factor
Anneal ==
    /\ pc = "anneal"
    /\ lr' = IF ~args.use_var_bptt THEN ExtDivInt(lr, args.anneal_factor) ELSE lr
    /\ pc' = "epoch_end"
    /\ UNCHANGED <<cfgv, e, i, modelv, schedv, accv, histv, tmpv, outv, ghostv, raw_acc>>

\* lines 169-171: cur_lr = ...; print the epoch's line
EpochEnd ==
    /\ pc = "epoch_end"
    /\ end_params' = Append(end_params, params)
    /\ pc' = "for_epoch"
    /\ UNCHANGED <<cfgv, e, i, modelv, lr, schedv, accv, histv, tmpv, outv, int_at,
                   raw_acc>>

\* the statements inside try: (lines 106-171)
LoopPcs == {"for_epoch", "train_setup", "for_train", "scale_lr", "forward",
            "compute_loss", "opt_step", "restore_lr", "accumulate", "train_avg",
            "valid_setup", "for_valid", "valid_forward", "valid_loss", "valid_avg",
            "compare", "set_best_loss", "set_best_epoch", "save", "anneal",
            "epoch_end"}

\* variant: an interrupt the except clause does not cover, which ends the process
KeyboardInterruptUncaught ==
    /\ pc \in LoopPcs
    /\ int_at = <<>>
    /\ int_at' = <<[e |-> e, params |-> params]>>
    /\ pc' = "crashed"
    /\ train_loss' = Num(0) /\ valid_loss' = Num(0)
    /\ seq_len' = 0 /\ tensors' = <<>> /\ raw_loss' = 0 /\ loss' = 0
    /\ i' = 0
    /\ raw_acc' = Num(0)
    /\ UNCHANGED <<cfgv, e, modelv, lr, schedv, test_loss, histv, outv, end_params>>

\* lines 173-174: a KeyboardInterrupt raised at any statement of the loop is caught;
\* control falls through to the test evaluation.  The loop's temporaries (the
\* accumulators and the window's tensors) are not read after the loop.
KeyboardInterrupt ==
    /\ pc \in LoopPcs
    /\ int_at = <<>>
    /\ int_at' = <<[e |-> e, params |-> params]>>
    /\ pc' = "test_setup"
    /\ train_loss' = Num(0) /\ valid_loss' = Num(0)
    /\ seq_len' = 0 /\ tensors' = <<>> /\ raw_loss' = 0 /\ loss' = 0
    /\ i' = 0
    /\ raw_acc' = Num(0)
    /\ UNCHANGED <<cfgv, e, modelv, lr, schedv, test_loss, histv, outv, end_params>>

\* ------------------------------------------------------ after the loop
\* lines 177-180: model.eval(); model.reset_hidden(); test_loss = 0
TestSetup ==
    /\ pc = "test_setup"
    /\ mode' = "eval"
    /\ hidden' = ResetHidden
    /\ test_loss' = Num(0)
    /\ raw_acc' = Num(0)
    /\ i' = 0
    /\ pc' = "for_test"
    /\ UNCHANGED <<cfgv, e, params, lr, schedv, train_loss, valid_loss, histv, tmpv,
                   outv, ghostv>>

\* lines 181-183: the next window of test_loader, or the end of the pass
ForTest ==
    /\ pc = "for_test"
    /\ IF i < LoaderLen("test")
       THEN /\ i' = i + 1
            /\ pc' = "test_forward"
       ELSE /\ i' = i
            /\ pc' = "test_avg"
    /\ UNCHANGED <<cfgv, e, modelv, lr, schedv, accv, histv, tmpv, outv, ghostv, raw_acc>>

\* lines 184-187: out = model(x), under torch.no_grad()
TestForward ==
    /\ pc = "test_forward"
    /\ hidden' = CarryHidden(hidden, <<"test", 0, i>>)
    /\ pc' = "test_loss"
    /\ UNCHANGED <<cfgv, e, i, mode, params, lr, schedv, accv, histv, tmpv, outv,
                   ghostv, raw_acc>>

\* lines 188-190: loss = criterion(...); test_loss += loss.item()
TestLoss ==
    /\ pc = "test_loss"
    /\ \E c \in CritVals("test"), ar \in ArVals, tar \in TarVals :
          LET pen == ExtAdd(ExtScale(args.ab[1], ar), ExtScale(args.ab[2], tar))
          IN  /\ test_loss' = ExtAdd(test_loss, EvalLoss(c, pen))
              /\ raw_acc' = ExtAdd(raw_acc, c)
    /\ pc' = "for_test"
    /\ UNCHANGED <<cfgv, e, i, modelv, lr, schedv, train_loss, valid_loss, histv, tmpv,
                   outv, ghostv>>

\* lines 191-193: test_loss /= len(test_loader); print it
TestAvg ==
    /\ pc = "test_avg"
    /\ test_loss' = ExtDivInt(test_loss, LoaderLen("test"))
    /\ pc' = "save_csv"
    /\ UNCHANGED <<cfgv, e, i, modelv, lr, schedv, train_loss, valid_loss, histv, tmpv,
                   outv, ghostv, raw_acc>>

\* lines 195-197: pd.DataFrame(data={'train': ..., 'valid': ...}).to_csv(...);
\* DataFrame raises ValueError for columns of unequal length, which nothing catches
SaveCsv ==
    /\ pc = "save_csv"
    /\ IF Len(train_losses) = Len(valid_losses)
       THEN /\ csv' = <<[train |-> train_losses, valid |-> valid_losses]>>
            /\ pc' = "save_txt"
       ELSE /\ csv' = csv
            /\ pc' = "crashed"
    /\ UNCHANGED <<cfgv, e, i, modelv, lr, schedv, accv, histv, tmpv, txt, ghostv,
                   raw_acc>>

\* lines 198-199: the summary line
SaveTxt ==
    /\ pc = "save_txt"
    /\ txt' = <<[best_loss |-> best_loss, best_epoch |-> best_epoch,
                 test_loss |-> test_loss]>>
    /\ pc' = "done"
    /\ UNCHANGED <<cfgv, e, i, modelv, lr, schedv, accv, histv, tmpv, csv, ghostv,
                   raw_acc>>

Step ==
    \/ ForEpoch \/ TrainSetup \/ ForTrain \/ ScaleLR \/ Forward \/ ComputeLoss
    \/ OptStep \/ RestoreLR \/ Accumulate \/ TrainAvg
    \/ ValidSetup \/ ForValid \/ ValidForward \/ ValidLoss \/ ValidAvg
    \/ Compare \/ SetBestLoss \/ SetBestEpoch \/ Save \/ Anneal \/ EpochEnd
    \/ TestSetup \/ ForTest \/ TestForward \/ TestLoss \/ TestAvg \/ SaveCsv \/ SaveTxt

Next == Step \/ KeyboardInterrupt

Spec == Init /\ [][Next]_vars

\* the runs with the default --anneal_factor, --alpha and --beta
InitDefaults ==
    /\ Init
    /\ args.anneal_factor = 4
    /\ args.ab = <<2, 1>>

\* the interpreter always runs the next statement; the interrupt is the user's choice
FairSpec == InitDefaults /\ [][Next]_vars /\ WF_vars(Step)

\* ============================================================ properties
PostLoopPcs == {"test_setup", "for_test", "test_forward", "test_loss", "test_avg",
                "save_csv", "save_txt", "done", "crashed"}

\* the statements between the override of line 116 and the restore of line 137
OverridePcs == {"forward", "compute_loss", "opt_step", "restore_lr"}

\* the statements of a validation pass and of the test pass
EvalPcs == {"valid_setup", "for_valid", "valid_forward", "valid_loss", "valid_avg",
            "test_setup", "for_test", "test_forward", "test_loss", "test_avg"}

\* comparison of two finite rationals
RatLess(a, b) == a.n * b.d < b.n * a.d
\* "a is strictly lower than b" for losses: never so when either is NaN
StrictlyLower(a, b) ==
    /\ a.k # "nan" /\ b.k # "nan"
    /\ \/ a.k = "fin" /\ b.k = "inf"
       \/ a.k = "fin" /\ b.k = "fin" /\ RatLess(a, b)

RECURSIVE BestOf(_, _)
\* the lowest loss among the first n of vs, starting from +infinity
BestOf(vs, n) ==
    IF n = 0 THEN Inf
    ELSE LET b == BestOf(vs, n - 1)
         IN  IF StrictlyLower(vs[n], b) THEN vs[n] ELSE b

\* the epochs among the first n whose loss did not improve on the best before them
NonImproving(vs, n) == {j \in 1..n : ~StrictlyLower(vs[j], BestOf(vs, j - 1))}

RECURSIVE Pow(_, _)
Pow(a, k) == IF k = 0 THEN 1 ELSE a * Pow(a, k - 1)

\* the windows 1..n of one pass, as the carried state records them
WindowsOf(kind, ep, n) == [j \in 1..n |-> <<kind, ep, j>>]

\* ---------------------------------------------------------------- C1
\* C1: in variable-BPTT mode the learning rate at a window's optimizer step is
\* base_lr * L / B for the window's length L, and at every statement of the epoch
\* loop outside the override..restore region (so right after the restore, and at the
\* start of every window of every epoch) it is exactly base_lr.
C1_LRScaledPerWindow ==
    args.use_var_bptt =>
        /\ pc = "opt_step" =>
              /\ lr.k = "fin"
              /\ lr.n * args_bptt = args_lr * seq_len * lr.d
        /\ pc \in (LoopPcs \ OverridePcs) => lr = base_lr

\* a second-epoch window of length other than B whose rate has just been restored
C1_Witness ==
    /\ args.use_var_bptt
    /\ pc = "accumulate"
    /\ e = 2 /\ i = 2
    /\ seq_len # args_bptt
    /\ lr = base_lr

\* ---------------------------------------------------------------- C2
\* C2 as stated: after every completed epoch best_loss is the minimum of all the
\* validation losses so far, best_epoch is the earliest epoch that reached it, and
\* the checkpoint holds the parameters of the end of best_epoch.
C2_AsStated ==
    (pc = "for_epoch" /\ e >= 1) =>
        /\ \A j \in 1..e : ~StrictlyLower(valid_losses[j], best_loss)
        /\ best_epoch \in 1..e
        /\ valid_losses[best_epoch] = best_loss
        /\ \A j \in 1..(best_epoch - 1) : valid_losses[j] # best_loss
        /\ ckpt = <<end_params[best_epoch]>>

\* the epochs completed so far whose validation loss is a finite number
FiniteEpochs == {j \in 1..Len(valid_losses) : IsFinite(valid_losses[j])}

\* C2 amended: after every completed epoch, if some epoch had a finite validation loss
\* then best_loss is the minimum of the finite ones, best_epoch the earliest epoch that
\* reached it and the checkpoint holds the parameters of the end of best_epoch;
\* if none had (all NaN or +infinity), best_loss is still +infinity, best_epoch is
\* still 0 and no checkpoint has been written.
C2_BestIsMinOfFinite ==
    (pc = "for_epoch" /\ e >= 1) =>
        IF FiniteEpochs = {}
        THEN best_loss = Inf /\ best_epoch = 0 /\ ckpt = <<>>
        ELSE /\ best_epoch \in FiniteEpochs
             /\ best_loss = valid_losses[best_epoch]
             /\ \A j \in FiniteEpochs :
                   /\ ~RatLess(valid_losses[j], best_loss)
                   /\ j < best_epoch => RatLess(best_loss, valid_losses[j])
             /\ ckpt = <<end_params[best_epoch]>>

\* three epochs, the second and third no better than the first: the checkpoint is
\* still the first epoch's
C2_Witness ==
    /\ pc = "for_epoch" /\ e = 3
    /\ best_epoch = 1
    /\ IsFinite(valid_losses[2]) /\ RatLess(valid_losses[1], valid_losses[2])
    /\ valid_losses[3] = valid_losses[1]
    /\ ckpt = <<end_params[1]>>
    /\ end_params[1] # end_params[3]

\* ---------------------------------------------------------------- C3
\* C3: at every epoch boundary the learning rate is initial_lr / anneal_factor^k in
\* fixed-BPTT mode, k being the number of epochs so far whose validation loss did not
\* improve on the best before them, and initial_lr in variable-BPTT mode.
C3_AnnealOnNonImprovement ==
    pc = "for_epoch" =>
        LET k == Cardinality(NonImproving(valid_losses, Len(valid_losses)))
        IN  lr = IF args.use_var_bptt
                 THEN base_lr
                 ELSE Fin(args_lr, Pow(args.anneal_factor, k))

\* fixed mode, epoch 1 improved and epoch 2 did not: the rate entering epoch 3
C3_Witness ==
    /\ ~args.use_var_bptt
    /\ pc = "for_epoch" /\ e = 2
    /\ NonImproving(valid_losses, 2) = {2}
    /\ lr = Fin(args_lr, args.anneal_factor)

\* ---------------------------------------------------------------- C4
\* C4: once a KeyboardInterrupt has been raised inside the epoch loop, control is
\* past the loop for good (no further epoch starts), the test pass is set up next and
\* sees every test window before the results are written, and the parameters in
\* memory stay those of the moment of the interrupt (nothing loads the checkpoint).
C4_AfterInterrupt ==
    int_at # <<>> =>
        /\ pc \in PostLoopPcs
        /\ e = int_at[1].e
        /\ params = int_at[1].params
        /\ pc \in {"save_csv", "save_txt", "done", "crashed"} =>
              /\ mode = "eval"
              /\ hidden = WindowsOf("test", 0, LoaderLen("test"))

\* C4, with progress: the above at every state, and after an interrupt the run does
\* reach the end of the test pass (the interpreter keeps running statements).
C4_InterruptFallsThroughToTest ==
    /\ []C4_AfterInterrupt
    /\ (int_at # <<>>) ~> (pc \in {"save_csv", "save_txt", "done", "crashed"})

\* interrupted during the first epoch's training, after a step: the test pass has run
\* on those parameters while a later epoch was still due
C4_Witness ==
    /\ int_at # <<>>
    /\ pc = "save_csv"
    /\ e = 1 /\ e < args.epochs
    /\ params = 1
    /\ ckpt = <<>>

\* ---------------------------------------------------------------- C5
\* C5: the forward call of window i of a pass finds the carried state left by the
\* windows 1..i-1 of that same pass: zeroed for the first window of every training,
\* validation and test pass, never reset in between.
C5_HiddenPerPass ==
    /\ pc = "forward" => hidden = WindowsOf("train", e, i - 1)
    /\ pc = "valid_forward" => hidden = WindowsOf("valid", e, i - 1)
    /\ pc = "test_forward" => hidden = WindowsOf("test", 0, i - 1)

\* the second validation window of the second epoch, carrying the first one's state
C5_Witness ==
    /\ pc = "valid_forward"
    /\ e = 2 /\ i = 2
    /\ hidden = <<<<"valid", 2, 1>>>>

\* ---------------------------------------------------------------- C6
\* C6: the parameters change only in the optimizer step; no statement of a validation
\* or test pass changes the parameters, the learning rate, best_loss, best_epoch or
\* the checkpoint; and the loss such a pass has summed is the sum of its windows'
\* cross-entropy values, without AR/TAR penalty.
C6_EvalPassesAreReadOnly ==
    /\ [][params' # params => pc = "opt_step"]_vars
    /\ [][(pc \in EvalPcs) =>
            (params' = params /\ lr' = lr /\ best_loss' = best_loss
             /\ best_epoch' = best_epoch /\ ckpt' = ckpt)]_vars
    /\ [](pc = "valid_avg" => valid_loss = raw_acc)
    /\ [](pc = "test_avg" => test_loss = raw_acc)

\* the test pass has summed its windows with alpha and beta non-zero, after two
\* epochs of training
C6_Witness ==
    /\ pc = "test_avg"
    /\ args.ab[1] > 0 /\ args.ab[2] > 0
    /\ Len(valid_losses) >= 2
    /\ params > 0
    /\ test_loss = Num(LoaderLen("test"))

\* ---------------------------------------------------------------- C7
\* C7 as stated, in the case most favourable to it: when an epoch whose validation
\* loss is NaN or infinite completes and no earlier epoch has recorded a finite loss,
\* its parameters are what the checkpoint holds.
C7_AsStated ==
    (/\ pc = "for_epoch" /\ e >= 1
     /\ FiniteEpochs = {}) =>
        ckpt = <<end_params[e]>>

\* C7 amended: an epoch whose validation loss is NaN or +infinity counts as not
\* improving: the run goes on without error (only an interrupted run can end in an
\* uncaught exception), and its parameters are never written to the checkpoint.
C7_NonFiniteNeverSaved ==
    /\ pc \in {"set_best_loss", "set_best_epoch", "save"} => IsFinite(valid_loss)
    /\ pc = "for_epoch" =>
          \A j \in 1..e : ~IsFinite(valid_losses[j]) => ckpt # <<end_params[j]>>
    /\ pc = "crashed" => int_at # <<>>

\* a NaN epoch after a finite one: the run is about to start the next epoch and the
\* checkpoint is still the first epoch's
C7_Witness ==
    /\ pc = "for_epoch" /\ e = 2 /\ e < args.epochs
    /\ IsFinite(valid_losses[1])
    /\ valid_losses[2] = NaN
    /\ ckpt = <<end_params[1]>>
    /\ int_at = <<>>

\* ---------------------------------------------------------------- C8
\* C8: when the loss history reaches the CSV writer (line 197), train_losses and
\* valid_losses have the same length, in every run, interrupted or not.
C8_HistoriesSameLength ==
    pc = "save_csv" => Len(train_losses) = Len(valid_losses)

\* ---------------------------------------------------------------- C9
\* C9: the per-epoch training loss is summed from the windows' raw cross-entropy
\* values only, whatever alpha and beta are: when the training pass ends, train_loss
\* is the sum of the criterion's values of its windows.
C9_TrainLossIsRaw ==
    pc = "train_avg" => train_loss = raw_acc

\* --------------------------------------------------------------- C10
\* C10: in variable-BPTT mode the learning rate is base_lr once control has left the
\* epoch loop, on every exit path, an interrupt between override and restore included.
C10_LRRestoredOnEveryExit ==
    (args.use_var_bptt /\ pc \in PostLoopPcs) => lr = base_lr
====
